---------------------------- MODULE Spec2Model ----------------------------
(***************************************************************************)
(* Model of the chat side-panel of the SVG editor.                         *)
(*                                                                         *)
(* Two versions of the Chat component exist in the repository:             *)
(*   "NS"  src/unnamed/part_000     NAME: / STATUS: DONE text protocol     *)
(*   "TC"  src/components/Chat.tsx  fenced SVG text + update_canvas tool   *)
(* Both drive the same App state (svgCode, svgTitle) through the callbacks *)
(* onSvgCodeChange / onSvgTitleChange.                                     *)
(*                                                                         *)
(* Text is modelled as a sequence of one-character strings, so that        *)
(* substring search, regular-expression matching and chunk boundaries are  *)
(* computed character by character as the code computes them.              *)
(***************************************************************************)
EXTENDS Integers, Sequences, FiniteSets, TLC

VARIABLES
    variant,        \* which Chat source is mounted: "NS" or "TC"
    chat,           \* useMemo chat client: TRUE = created, FALSE = null
    messages,       \* useState<Message[]>
    input,          \* useState('') : text of the input field
    isLoading,      \* useState(false)
    thinkingState,  \* NS: 'idle'|'thinking'|'generating'; TC isThinking: 'idle'|'thinking'
    error,          \* useState<string|null>: "null" or the error text tag
    attachedFile,   \* useState<File|null>: 0 = null, else a file id
    previewUrl,     \* useState<string|null>: 0 = null, else an object-URL id
    svgCode,        \* App: useState(initialSvgCode)
    svgTitle,       \* App: useState('ai-artwork')
    now,            \* the wall clock read by Date.now()
    pc,             \* position of the one handleSubmit invocation in flight: "idle",
                    \* one of its awaits, or "hung" at an await that never settles
    resp,           \* NS: the text the remote stream will deliver
    pos,            \* NS: number of characters of resp already delivered
    loc,            \* the local variables of handleSubmit (let ... in the try block)
    outstanding,    \* requests sent to the remote service and not yet finished
    isChatOpen,     \* App: useState(false), whether the chat panel is shown
    mounted,        \* whether the Chat component is mounted
    urlCount,       \* number of URL.createObjectURL calls of the preview effect
    objectUrls,     \* the object URLs created and not revoked
    hist            \* observation of the callbacks and events of the current submission

vars == << variant, chat, messages, input, isLoading, thinkingState, error,
           attachedFile, previewUrl, svgCode, svgTitle, now, pc, resp, pos,
           loc, outstanding, isChatOpen, mounted, urlCount, objectUrls, hist >>

\* what no step of the Chat component changes
fixed == << variant, chat, isChatOpen, mounted >>

\* the object URLs of the image preview
urls == << urlCount, objectUrls >>

-----------------------------------------------------------------------------
(* Bounds of the model *)

\* longest response, in tokens, the remote service delivers in the parser
\* specification
MaxTokens == 4

\* submit events a behaviour contains at most
MaxSubmitEvents == 2

\* chunks the streams of the tool-call variant deliver at most, all submissions together
MaxChunks == 2

\* the clock stops advancing here
MaxNow == 12

\* files the user attaches at most, each given one object URL
MaxObjectUrls == 2

\* chunks the stream delivers at most in the live extraction specification
MaxLiveChunks == 5

\* longest text, in tokens, handed to extractSvgFromText in the extraction
\* specification
MaxExtractTokens == 4

\* chunks the stream delivers at most in the content specification
MaxContentChunks == 2

\* longest title, in characters, in the file name specification
MaxTitleLength == 3

-----------------------------------------------------------------------------
(* Strings *)

Min(a, b) == IF a <= b THEN a ELSE b

\* the 'NAME: ' literal of /NAME: (.*)\n/
NAME_PREFIX == << "N", "A", "M", "E", ":", " " >>

\* the 'STATUS: DONE' literal
STATUS_DONE == << "S", "T", "A", "T", "U", "S", ":", " ", "D", "O", "N", "E" >>

\* characters the regular expression atom '.' does not match
LineTerminators == { "\n", "\r" }

\* characters String.prototype.trim / trimStart remove
WhiteSpace == { " ", "\n", "\r", "\t" }

\* String.prototype.substring(from) with a 0-based index
SubstringFrom(s, from) == SubSeq(s, from + 1, Len(s))

\* String.prototype.substring(0, to) with a 0-based exclusive end
SubstringTo(s, to) == SubSeq(s, 1, Min(to, Len(s)))

\* whether pat occurs in s at 0-based index i
OccursAt(s, pat, i) ==
    /\ i >= 0
    /\ i + Len(pat) <= Len(s)
    /\ SubSeq(s, i + 1, i + Len(pat)) = pat

\* String.prototype.indexOf(pat): 0-based index of the first occurrence, or -1
IndexOf(s, pat) ==
    LET hits == { i \in 0 .. Len(s) : OccursAt(s, pat, i) }
    IN  IF hits = {} THEN -1
        ELSE CHOOSE i \in hits : \A j \in hits : i <= j

\* String.prototype.trimStart
TrimStart(s) ==
    LET keep == { i \in 1 .. Len(s) : s[i] \notin WhiteSpace }
    IN  IF keep = {} THEN << >>
        ELSE SubSeq(s, CHOOSE i \in keep : \A j \in keep : i <= j, Len(s))

\* String.prototype.trim
Trim(s) ==
    LET keep == { i \in 1 .. Len(s) : s[i] \notin WhiteSpace }
    IN  IF keep = {} THEN << >>
        ELSE SubSeq(s, CHOOSE i \in keep : \A j \in keep : i <= j,
                       CHOOSE i \in keep : \A j \in keep : i >= j)

\* whether /NAME: (.*)\n/ matches starting at 0-based index i: the literal, then
\* the greedy run of characters that are not line terminators, then '\n'
NameMatchesAt(s, i) ==
    /\ OccursAt(s, NAME_PREFIX, i)
    /\ \E e \in i + Len(NAME_PREFIX) + 1 .. Len(s) :
          /\ s[e] = "\n"
          /\ \A k \in i + Len(NAME_PREFIX) + 1 .. e - 1 : s[k] \notin LineTerminators

\* buffer.match(/NAME: (.*)\n/): the leftmost match as
\* [found, index (0-based), length of match[0], group 1]
MatchName(s) ==
    LET hits == { i \in 0 .. Len(s) : NameMatchesAt(s, i) }
    IN  IF hits = {}
        THEN [ found |-> FALSE, index |-> -1, length |-> 0, group |-> << >> ]
        ELSE LET i == CHOOSE h \in hits : \A j \in hits : h <= j
                 g == i + Len(NAME_PREFIX)
                 e == CHOOSE x \in g + 1 .. Len(s) :
                          /\ s[x] = "\n"
                          /\ \A k \in g + 1 .. x - 1 : s[k] # "\n"
             IN  [ found |-> TRUE, index |-> i, length |-> e - i,
                   group |-> SubSeq(s, g + 1, e - 1) ]


-----------------------------------------------------------------------------
(* Messages *)

\* A message id is a number: [ms, frac] stands for ms + frac / n, where frac = 0
\* for the integers Date.now() + k and frac is the outcome of Math.random()
\* for the ids of tool log entries.
Id(ms) == [ ms |-> ms, frac |-> 0 ]

\* Date.now() + Math.random()
RandomId(ms, r) == [ ms |-> ms, frac |-> r ]

\* the outcomes of Math.random() told apart: 0, and two values in (0, 1)
Fractions == { 0, 1 }

\* id: 1 of the greeting the transcript starts with
InitialMessageId == Id(1)

\* no message id (creationMessageId / followUpMessageId = null)
NullId == Id(0)

\* a Message object; fields a message does not carry hold their empty value
\* (text '' / image 0 / creation or toolInfo status "none")
Message(id, sender, type, text) ==
    [ id |-> id, sender |-> sender, type |-> type, text |-> text, image |-> 0,
      name |-> << >>, status |-> "none", thought |-> << >>, isStreaming |-> FALSE ]

\* the greeting message (its wording is not modelled)
Greeting == << "h", "i" >>

InitialMessages == << Message(InitialMessageId, "ai", "text", Greeting) >>

\* an update that adds the text to the text the message has
SetMessageText_Appending(msgs, id, text) ==
    [ i \in 1 .. Len(msgs) |->
        IF msgs[i].id = id THEN [ msgs[i] EXCEPT !.text = @ \o text ] ELSE msgs[i] ]

\* prev.map(msg => msg.id === id ? { ...msg, text } : msg)
SetMessageText(msgs, id, text) ==
    [ i \in 1 .. Len(msgs) |->
        IF msgs[i].id = id THEN [ msgs[i] EXCEPT !.text = text ] ELSE msgs[i] ]

\* prev.map(msg => msg.id === id ? { ...msg, text: (msg.text || '') + chunkText } : msg)
AppendMessageText(msgs, id, chunkText) ==
    [ i \in 1 .. Len(msgs) |->
        IF msgs[i].id = id THEN [ msgs[i] EXCEPT !.text = @ \o chunkText ] ELSE msgs[i] ]

\* prev.map(msg => msg.id === id ? { ...msg, creation: { ...msg.creation, status } } : msg)
SetCreationStatus(msgs, id, status) ==
    [ i \in 1 .. Len(msgs) |->
        IF msgs[i].id = id THEN [ msgs[i] EXCEPT !.status = status ] ELSE msgs[i] ]

\* the text shown by the catch block (its wording is not modelled)
ErrorText == << "e", "r", "r" >>

-----------------------------------------------------------------------------
(* App callbacks.  W is the part of the state one synchronous run of the      *)
(* handler reads and writes: [loc, messages, svgCode, svgTitle,               *)
(* thinkingState, hist].  hist observes the calls made during the most      *)
(* recent synchronous run: stepWrites are the arguments of its               *)
(* onSvgCodeChange calls in order, lastWrite the argument of the last call   *)
(* made by earlier runs of the same submission (<< >> when there was none,   *)
(* << v >> otherwise).                                                       *)

\* App.updateSvgCode, passed as onSvgCodeChange
UpdateSvgCode(W, newCode) ==
    [ W EXCEPT !.svgCode = newCode,
               !.hist.stepWrites = Append(@, newCode) ]

\* App.setSvgTitle, passed as onSvgTitleChange
SetSvgTitle(W, title) ==
    [ W EXCEPT !.svgTitle = title,
               !.hist.titleCalls = Append(@, title) ]

\* an assignment to the local variable 'state'
SetParserState(W, s) ==
    [ W EXCEPT !.loc.state = s,
               !.hist.stateTrace = Append(@, s) ]

-----------------------------------------------------------------------------
(* NAME/STATUS variant: the body of the for-await loop *)

\* the parser left in 'reasoning' after the NAME line
AfterNameState_Reasoning == "reasoning"

\* the parser sent to the declared but unused state
AfterNameState_FindingName == "finding_name"

\* state = 'streaming_svg', the state the parser enters when the NAME line is found
AfterNameState == "streaming_svg"

\* if (state === 'reasoning') { ... }
ReasoningBranch(W, t) ==
    IF W.loc.state # "reasoning" THEN W
    ELSE
      LET nameMatch == MatchName(W.loc.buffer) IN
      IF nameMatch.found
      THEN LET name == Trim(nameMatch.group)
               reasoningText == Trim(SubstringTo(W.loc.buffer, nameMatch.index))
               W1 == SetSvgTitle([ W EXCEPT !.thinkingState = "generating",
                                            !.hist.stepName = TRUE ], name)
               W2 == [ W1 EXCEPT
                        !.messages =
                            Append(SetMessageText(@, W.loc.textResponseId, reasoningText),
                                   [ Message(Id(t + 20), "ai", "creation", << >>)
                                       EXCEPT !.name = name, !.status = "creating" ]),
                        !.loc.creationMessageId = Id(t + 20),
                        !.loc.buffer =
                            SubstringFrom(W.loc.buffer, nameMatch.index + nameMatch.length) ]
               W3 == UpdateSvgCode(SetParserState(W2, AfterNameState), << >>)
           IN  [ W3 EXCEPT !.loc.currentSvgCode = << >> ]
      ELSE [ W EXCEPT !.messages = SetMessageText(@, W.loc.textResponseId, W.loc.buffer) ]

\* currentSvgCode = part
AccumulateSvg_Overwrite(currentSvgCode, part) == part

\* an accumulation that continues the shared SVG text
AccumulateSvg_OntoShared(currentSvgCode, part) == svgCode \o part

\* currentSvgCode += part
AccumulateSvg(currentSvgCode, part) == currentSvgCode \o part

\* if (state === 'streaming_svg') { ... }
StreamingSvgBranch(W, t) ==
    IF W.loc.state # "streaming_svg" THEN W
    ELSE
      LET statusMatch == IndexOf(W.loc.buffer, STATUS_DONE)
          W0 == [ W EXCEPT !.hist.stepSvgBlock = TRUE ]
      IN
      IF statusMatch # -1
      THEN LET svgPart == SubstringTo(W.loc.buffer, statusMatch)
               code == AccumulateSvg(W.loc.currentSvgCode, svgPart)
               W1 == UpdateSvgCode([ W0 EXCEPT !.loc.currentSvgCode = code ], code)
               W2 == [ W1 EXCEPT
                        !.messages = SetCreationStatus(@, W.loc.creationMessageId, "created"),
                        !.loc.buffer =
                            TrimStart(SubstringFrom(W.loc.buffer,
                                                    statusMatch + Len(STATUS_DONE))) ]
               W3 == SetParserState(W2, "streaming_follow_up")
           IN  [ W3 EXCEPT
                   !.loc.followUpMessageId = Id(t + 30),
                   !.messages = Append(@, Message(Id(t + 30), "ai", "text", << >>)) ]
      ELSE LET code == AccumulateSvg(W.loc.currentSvgCode, W.loc.buffer)
               W1 == UpdateSvgCode([ W0 EXCEPT !.loc.currentSvgCode = code ], code)
           IN  [ W1 EXCEPT !.loc.buffer = << >> ]

\* a follow-up block that goes on writing the chunks to the shared SVG text
FollowUpBranch_Writing(W, chunkText) ==
    IF W.loc.state # "streaming_follow_up" THEN W
    ELSE UpdateSvgCode(
            [ W EXCEPT
                !.messages = AppendMessageText(@, W.loc.followUpMessageId, chunkText) ],
            W.loc.currentSvgCode \o chunkText)

\* if (state === 'streaming_follow_up') { ... }
FollowUpBranch(W, chunkText) ==
    IF W.loc.state # "streaming_follow_up" THEN W
    ELSE [ W EXCEPT
             !.messages = AppendMessageText(@, W.loc.followUpMessageId, chunkText) ]

\* the observation starts over for the next synchronous run
BeginStep(W) ==
    [ W EXCEPT !.hist.lastWrite =
                   IF W.hist.stepWrites = << >> THEN @
                   ELSE << W.hist.stepWrites[Len(W.hist.stepWrites)] >>,
               !.hist.stepWrites = << >>,
               !.hist.stepName = FALSE,
               !.hist.stepSvgBlock = FALSE,
               !.hist.typed = << >> ]

\* one iteration of 'for await (const chunk of responseStream)'
ProcessChunkNS(W, chunkText, t) ==
    FollowUpBranch(
        StreamingSvgBranch(
            ReasoningBranch([ BeginStep(W) EXCEPT !.loc.buffer = @ \o chunkText ], t),
            t),
        chunkText)

-----------------------------------------------------------------------------
(* Tool-call variant: extractSvgFromText *)

\* String.prototype.toLowerCase on one character, for the letters the
\* case-insensitive patterns /<svg/i and /<\/svg>/i can match
ToLowerChar(c) ==
    CASE c = "S" -> "s"
      [] c = "V" -> "v"
      [] c = "G" -> "g"
      [] OTHER -> c

Lower(s) == [ i \in 1 .. Len(s) |-> ToLowerChar(s[i]) ]

\* the index of the last occurrence instead of the first
LastIndexOfIgnoreCase(s, pat) ==
    LET hits == { i \in 0 .. Len(s) : OccursAt(Lower(s), Lower(pat), i) }
    IN  IF hits = {} THEN -1
        ELSE CHOOSE i \in hits : \A j \in hits : i >= j

\* the index of the first match of a literal pattern with the i flag, or -1
IndexOfIgnoreCase(s, pat) == IndexOf(Lower(s), Lower(pat))


SVG_OPEN == << "<", "s", "v", "g" >>

SVG_CLOSE == << "<", "/", "s", "v", "g", ">" >>

\* the backquote character (written "^": a TLA+ string cannot hold a backquote)
BQ == "^"

\* the fences of the two replace patterns: three backquotes, "xml", a newline
FENCE_XML == << BQ, BQ, BQ, "x", "m", "l", "\n" >>

FENCE == << BQ, BQ, BQ, "\n" >>

\* s.replace(/^pat/, "") for a literal pat
RemovePrefix(s, pat) ==
    IF OccursAt(s, pat, 0) THEN SubstringFrom(s, Len(pat)) ELSE s

\* the 6 of 'closingMatch.index! + 6'
ClosingTagLength == 6

\* the end index one short of the closing tag's end
EndIndex_OneShort(closingIndex) == closingIndex + ClosingTagLength - 1

\* const endIndex = closingMatch.index! + 6
EndIndex(closingIndex) == closingIndex + ClosingTagLength

\* extractSvgFromText(text): << >> for null, << svgContent >> otherwise
ExtractSvgFromText(text) ==
    LET start == IndexOfIgnoreCase(text, SVG_OPEN) IN
    IF start = -1 THEN << >>
    ELSE LET match0 == SubstringFrom(text, start)
             cleaned == RemovePrefix(RemovePrefix(match0, FENCE_XML), FENCE)
             closing == IndexOfIgnoreCase(cleaned, SVG_CLOSE)
         IN  IF closing # -1
             THEN << SubstringTo(cleaned, EndIndex(closing)) >>
             ELSE << cleaned >>

-----------------------------------------------------------------------------
(* Tool-call variant: the body of the for-await loop.  A run of the body     *)
(* stops at 'await chat.sendMessage(...)' (loc.awaiting) and is resumed when *)
(* that promise settles.                                                     *)

\* the 20 of 'potentialSvg.length > 20'
MinSvgLength == 20

\* prev.map(m => m.id === id && m.type === 'tool_log'
\*               ? { ...m, toolInfo: { ...m.toolInfo, status } } : m)
SetToolStatus(msgs, id, status) ==
    [ i \in 1 .. Len(msgs) |->
        IF msgs[i].id = id /\ msgs[i].type = "tool_log"
        THEN [ msgs[i] EXCEPT !.status = status ] ELSE msgs[i] ]

\* a test that knows only part.thought === true
IsThought_FlagOnly(part) == part.kind = "thoughtFlag"

\* const isThought = part.thought === true || typeof part.thought === 'string'
IsThought(part) == part.kind \in { "thoughtFlag", "thoughtString" }

\* one part of candidates[0].content.parts
HandlePart(W, part) ==
    IF IsThought(part)
    THEN LET textToAppend == IF part.kind = "thoughtString" THEN part.thought
                             ELSE part.text
         IN  IF textToAppend # << >>
             THEN [ W EXCEPT !.loc.thoughtAccumulator = @ \o textToAppend,
                             !.loc.contentUpdated = TRUE ]
             ELSE W
    ELSE IF part.text # << >>
    THEN LET acc == W.loc.aiTextAccumulator \o part.text
             potentialSvg == ExtractSvgFromText(acc)
             W1 == [ W EXCEPT !.loc.aiTextAccumulator = acc,
                              !.loc.contentUpdated = TRUE,
                              !.loc.potentialSvg = potentialSvg ]
         IN  IF potentialSvg # << >> /\ Len(potentialSvg[1]) > MinSvgLength
             THEN UpdateSvgCode(W1, potentialSvg[1])
             ELSE W1
    ELSE W

\* for (const part of candidateParts) { ... }, from the i-th part on
RECURSIVE HandlePartsFrom(_, _)
HandlePartsFrom(W, i) ==
    IF i > Len(W.loc.chunk.parts) THEN W
    ELSE HandlePartsFrom(HandlePart(W, W.loc.chunk.parts[i]), i + 1)

\* an update that appends a message every time
UpdateAiMessage_AlwaysAdding(W) ==
    IF ~ W.loc.contentUpdated THEN W
    ELSE [ W EXCEPT
             !.messages =
                 Append(@, [ Message(W.loc.currentAiMessageId, "ai", "text",
                                     W.loc.aiTextAccumulator)
                               EXCEPT !.thought = W.loc.thoughtAccumulator,
                                      !.isStreaming = TRUE ]),
             !.loc.hasAddedAiMessage = TRUE ]

\* if (contentUpdated) { add the assistant message, or update it by id }
UpdateAiMessage(W) ==
    IF ~ W.loc.contentUpdated THEN W
    ELSE IF ~ W.loc.hasAddedAiMessage
    THEN [ W EXCEPT
             !.messages =
                 Append(@, [ Message(W.loc.currentAiMessageId, "ai", "text",
                                     W.loc.aiTextAccumulator)
                               EXCEPT !.thought = W.loc.thoughtAccumulator,
                                      !.isStreaming = TRUE ]),
             !.loc.hasAddedAiMessage = TRUE ]
    ELSE [ W EXCEPT
             !.messages =
                 [ i \in 1 .. Len(@) |->
                     IF @[i].id = W.loc.currentAiMessageId
                     THEN [ @[i] EXCEPT !.text = W.loc.aiTextAccumulator,
                                        !.thought = W.loc.thoughtAccumulator,
                                        !.isStreaming = TRUE ]
                     ELSE @[i] ] ]

\* '2. Handle Text & Thinking Content' to the end of the loop body
HandleContent(W) ==
    UpdateAiMessage(HandlePartsFrom([ W EXCEPT !.loc.contentUpdated = FALSE ], 1))

\* the tool log entry of an update_canvas call ('Updating Metadata'); its name
\* field holds args.title
ToolLogEntry(id, call) ==
    [ Message(id, "system", "tool_log", << >>)
        EXCEPT !.name = call.title, !.status = "calling" ]

\* an update_canvas call up to its await, or through its catch block when
\* reading call.args throws; rs[i] is the outcome of Math.random() for call i
HandleUpdateCanvas(W, call, t, rs) ==
    LET toolMsgId == RandomId(t, rs[W.loc.callIdx])
        W1 == [ W EXCEPT !.messages = Append(@, ToolLogEntry(toolMsgId, call)),
                         !.loc.toolMsgId = toolMsgId ]
    IN  IF ~ call.hasArgs
        THEN [ W1 EXCEPT !.messages = SetToolStatus(@, toolMsgId, "error"),
                         !.loc.callIdx = @ + 1 ]
        ELSE LET W2 == IF call.title # << >> THEN SetSvgTitle(W1, call.title) ELSE W1
             IN  [ W2 EXCEPT !.messages = SetToolStatus(@, toolMsgId, "success"),
                             !.loc.awaiting = TRUE ]

\* for (const call of functionCalls) { ... } from call loc.callIdx on, then the
\* rest of the loop body, unless an await interrupts
RECURSIVE HandleCallsFrom(_, _, _)
HandleCallsFrom(W, t, rs) ==
    IF W.loc.callIdx > Len(W.loc.chunk.functionCalls)
    THEN HandleContent(W)
    ELSE LET call == W.loc.chunk.functionCalls[W.loc.callIdx] IN
         IF call.name # "update_canvas"
         THEN HandleCallsFrom([ W EXCEPT !.loc.callIdx = @ + 1 ], t, rs)
         ELSE LET W1 == HandleUpdateCanvas(W, call, t, rs)
              IN  IF W1.loc.awaiting THEN W1 ELSE HandleCallsFrom(W1, t, rs)

\* one iteration of 'for await (const chunk of responseStream)', to its first
\* await or to its end
ProcessChunkTC(W, chunk, t, rs) ==
    HandleCallsFrom([ BeginStep(W) EXCEPT !.thinkingState = "idle",
                                          !.loc.chunk = chunk,
                                          !.loc.callIdx = 1 ], t, rs)

\* 'await chat.sendMessage(...)' resolved: on with the next call
ResumeAfterSend(W, t, rs) ==
    HandleCallsFrom([ BeginStep(W) EXCEPT !.loc.awaiting = FALSE,
                                          !.loc.callIdx = @ + 1 ], t, rs)

\* the catch block, and the rest of the loop body skipped
ResumeAfterSendFailed_Abandon(W, t, rs) ==
    [ BeginStep(W) EXCEPT
        !.messages = SetToolStatus(@, W.loc.toolMsgId, "error"),
        !.loc.awaiting = FALSE ]

\* 'await chat.sendMessage(...)' rejected: the catch block, then the next call
ResumeAfterSendFailed(W, t, rs) ==
    HandleCallsFrom([ BeginStep(W) EXCEPT
                        !.messages = SetToolStatus(@, W.loc.toolMsgId, "error"),
                        !.loc.awaiting = FALSE,
                        !.loc.callIdx = @ + 1 ], t, rs)

\* a filter in place of the map: the message is dropped
MarkStreamingComplete_Removing(msgs, id) ==
    SelectSeq(msgs, LAMBDA m : m.id # id)

\* prev.map(m => m.id === currentAiMessageId ? { ...m, isStreaming: false } : m)
MarkStreamingComplete(msgs, id) ==
    [ i \in 1 .. Len(msgs) |->
        IF msgs[i].id = id THEN [ msgs[i] EXCEPT !.isStreaming = FALSE ] ELSE msgs[i] ]

-----------------------------------------------------------------------------
(* State of the component and of the one handler invocation in flight *)

\* const initialSvgCode (its wording is not modelled)
InitialSvgCode == << "<", "s", "v", "g", "/", ">" >>

\* useState('ai-artwork') (its wording is not modelled)
InitialTitle == << "t", "0" >>

\* a chunk of the tool-call variant's stream: its function calls
\* [name, title (args.title, '' when absent)] and the parts of its first
\* candidate [kind, text, thought], kind telling part.thought undefined
\* ("text"), true ("thoughtFlag") or a string ("thoughtString")
NoChunk == [ functionCalls |-> << >>, parts |-> << >> ]

\* the local variables of handleSubmit before the stream is opened
InitLoc ==
    [ \* NAME/STATUS variant
      buffer |-> << >>, state |-> "reasoning",
      creationMessageId |-> NullId, followUpMessageId |-> NullId,
      currentSvgCode |-> << >>, textResponseId |-> NullId,
      \* tool-call variant
      currentAiMessageId |-> NullId, hasAddedAiMessage |-> FALSE,
      aiTextAccumulator |-> << >>, thoughtAccumulator |-> << >>,
      chunk |-> NoChunk, callIdx |-> 1, toolMsgId |-> NullId,
      contentUpdated |-> FALSE, potentialSvg |-> << >>, awaiting |-> FALSE ]

\* nothing observed yet of a submission
InitHist ==
    [ stepWrites |-> << >>, lastWrite |-> << >>, stepName |-> FALSE,
      stepSvgBlock |-> FALSE, titleCalls |-> << >>, stateTrace |-> << >>,
      stream |-> "none", chunks |-> 0, submitEvents |-> 0,
      returnedWhileLoading |-> FALSE, typed |-> << >>, parts |-> << >>,
      download |-> << >> ]

\* the state right after the component is mounted with a chat client
Mounted(v) ==
    /\ variant = v
    /\ chat = TRUE
    /\ messages = InitialMessages
    /\ input = << >>
    /\ isLoading = FALSE
    /\ thinkingState = "idle"
    /\ error = "null"
    /\ attachedFile = 0
    /\ previewUrl = 0
    /\ svgCode = InitialSvgCode
    /\ svgTitle = InitialTitle
    /\ now = 2
    /\ pc = "idle"
    /\ resp = << >>
    /\ pos = 0
    /\ loc = InitLoc
    /\ outstanding = 0
    /\ isChatOpen = FALSE
    /\ mounted = TRUE
    /\ urlCount = 0
    /\ objectUrls = { }
    /\ hist = InitHist

\* the part of the state a synchronous run of the handler works on
World ==
    [ loc |-> loc, messages |-> messages, svgCode |-> svgCode, svgTitle |-> svgTitle,
      thinkingState |-> thinkingState, hist |-> hist ]

\* the state after a synchronous run of the handler that ended in W
Commit(W) ==
    /\ loc' = W.loc
    /\ messages' = W.messages
    /\ svgCode' = W.svgCode
    /\ svgTitle' = W.svgTitle
    /\ thinkingState' = W.thinkingState
    /\ hist' = W.hist

\* a cleanup that revokes nothing
RevokeObjectURL_Leak(live, url) == live

\* URL.revokeObjectURL(objectUrl)
RevokeObjectURL(live, url) == live \ { url }

\* the cleanup of the image preview effect, run when attachedFile changes or
\* the component unmounts: return () => URL.revokeObjectURL(objectUrl), which
\* exists only if the effect ran with a file
CleanupPreview(live, url) ==
    IF url # 0 THEN RevokeObjectURL(live, url) ELSE live

-----------------------------------------------------------------------------
(* handleSubmit *)

\* the guard without its isLoading test
PassesGuard_IgnoresLoading ==
    ~ ( (Trim(input) = << >> /\ attachedFile = 0) \/ ~ chat )

\* the guard without its test of the chat client
PassesGuard_IgnoresChat ==
    ~ ( (Trim(input) = << >> /\ attachedFile = 0) \/ isLoading )

\* the early return of handleSubmit, negated
\*   if ((!input.trim() && !attachedFile) || isLoading || !chat) return;
PassesGuard ==
    ~ ( (Trim(input) = << >> /\ attachedFile = 0) \/ isLoading \/ ~ chat )

\* the submit button not disabled by an error
SubmitDisabled_IgnoresError ==
    isLoading \/ (Trim(input) = << >> /\ attachedFile = 0)

\* <button type="submit" disabled={isLoading || (!input.trim() && !attachedFile) || !!error}>
SubmitDisabled ==
    isLoading \/ (Trim(input) = << >> /\ attachedFile = 0) \/ error # "null"

\* <input type="text" disabled={isLoading || !!error}>
InputDisabled == isLoading \/ error # "null"

\* handleSubmit from its first line to its first await
HandleSubmit ==
    IF ~ PassesGuard
    THEN /\ hist' = [ hist EXCEPT !.submitEvents = @ + 1,
                                  !.returnedWhileLoading = isLoading ]
         /\ UNCHANGED << fixed, urls, messages, input, isLoading, thinkingState,
                         error, attachedFile, previewUrl, svgCode, svgTitle, now,
                         pc, resp, pos, loc, outstanding >>
    ELSE /\ messages' = Append(messages,
                          [ Message(Id(now), "user", "text", input) EXCEPT !.image = previewUrl ])
         /\ input' = << >>
         /\ attachedFile' = 0
         /\ previewUrl' = 0
         /\ isLoading' = TRUE
         /\ thinkingState' = "thinking"
         /\ error' = "null"
         /\ IF attachedFile # 0
            THEN pc' = "reading" /\ outstanding' = outstanding
            ELSE pc' = "opening" /\ outstanding' = outstanding + 1
         /\ loc' = InitLoc
         /\ hist' = [ InitHist EXCEPT !.submitEvents = hist.submitEvents + 1,
                                      !.chunks = hist.chunks ]
         /\ resp' = << >>
         /\ pos' = 0
         /\ urlCount' = urlCount
         /\ objectUrls' = CleanupPreview(objectUrls, previewUrl)
         /\ UNCHANGED << fixed, svgCode, svgTitle, now >>

\* 'await fileToGenerativePart(attachedFile)' resolves and sendMessageStream is called
FileRead ==
    /\ pc = "reading"
    /\ pc' = "opening"
    /\ outstanding' = outstanding + 1
    /\ UNCHANGED << fixed, urls, messages, input, isLoading, thinkingState, error,
                    attachedFile, previewUrl, svgCode, svgTitle, now, resp, pos,
                    loc, hist >>

\* the FileReader fails to read the attached file (a file changed or removed
\* since it was chosen): loadend fires with reader.result null, the callback
\* throws at .split and the promise, which has no reject path, is never
\* settled, so the handler stays suspended at its await
FileReadError ==
    /\ pc = "reading"
    /\ pc' = "hung"
    /\ UNCHANGED << fixed, urls, messages, input, isLoading, thinkingState, error,
                    attachedFile, previewUrl, svgCode, svgTitle, now, resp, pos,
                    loc, outstanding, hist >>

\* 'await chat.sendMessageStream(...)' resolves: the locals are declared and, in
\* the NAME/STATUS variant, the placeholder for the text response is appended
OpenStream(Responses) ==
    /\ pc = "opening"
    /\ pc' = "streaming"
    /\ \E r \in Responses : resp' = IF variant = "NS" THEN r ELSE << >>
    /\ pos' = 0
    /\ loc' = [ InitLoc EXCEPT !.textResponseId = Id(now + 10),
                               !.currentAiMessageId = Id(now + 10) ]
    /\ messages' = IF variant = "NS"
                   THEN Append(messages, Message(Id(now + 10), "ai", "text", << >>))
                   ELSE messages
    /\ hist' = [ hist EXCEPT !.stream = "open", !.stateTrace = << "reasoning" >> ]
    /\ UNCHANGED << fixed, urls, input, isLoading, thinkingState, error,
                    attachedFile, previewUrl, svgCode, svgTitle, now, outstanding >>

\* a catch block that appends nothing
CatchBlock_Silent(msgs, t) == msgs

\* catch (e) { setError(...); setMessages(prev => [...prev, error message]) }
CatchBlock(msgs, t) == Append(msgs, Message(Id(t), "ai", "text", ErrorText))

\* the catch and finally blocks, entered from an await of the stream that throws
Fail(outcome) ==
    /\ error' = "failed"
    /\ messages' = CatchBlock(messages, now)
    /\ isLoading' = FALSE
    /\ thinkingState' = "idle"
    /\ pc' = "idle"
    /\ outstanding' = outstanding - 1
    /\ hist' = [ hist EXCEPT !.stream = outcome ]
    /\ UNCHANGED << fixed, urls, input, attachedFile, previewUrl, svgCode,
                    svgTitle, now, resp, pos, loc >>

\* 'await chat.sendMessageStream(...)' rejects
OpenFail ==
    /\ pc = "opening"
    /\ Fail("refused")

\* the iterator of the response stream throws
StreamFail ==
    /\ pc = "streaming"
    /\ Fail("failed")

\* NAME/STATUS variant: the stream yields its next chunk, the next k characters
ChunkNS ==
    /\ variant = "NS"
    /\ pc = "streaming"
    /\ \E k \in 1 .. Len(resp) - pos :
          /\ Commit(ProcessChunkNS(World, SubSeq(resp, pos + 1, pos + k), now))
          /\ pos' = pos + k
    /\ UNCHANGED << fixed, urls, input, isLoading, error, attachedFile,
                    previewUrl, now, pc, resp, outstanding >>

\* NAME/STATUS variant: the stream is exhausted; the finally block runs
StreamEndNS ==
    /\ variant = "NS"
    /\ pc = "streaming"
    /\ pos = Len(resp)
    /\ isLoading' = FALSE
    /\ thinkingState' = "idle"
    /\ pc' = "idle"
    /\ outstanding' = outstanding - 1
    /\ hist' = [ hist EXCEPT !.stream = "ended" ]
    /\ UNCHANGED << fixed, urls, messages, input, error, attachedFile,
                    previewUrl, svgCode, svgTitle, now, resp, pos, loc >>

-----------------------------------------------------------------------------
(* The parser specification: one submission of the NAME/STATUS variant, the  *)
(* response any text of at most MaxTokens tokens, cut into chunks anywhere.  *)

ParserTokens == { NAME_PREFIX, << "\n" >>, STATUS_DONE, << "a" >>, << " " >> }

RECURSIVE TokenTexts(_)
TokenTexts(n) ==
    IF n = 0 THEN { << >> }
    ELSE LET S == TokenTexts(n - 1)
         IN  S \cup { s \o t : s \in S, t \in ParserTokens }

ParserResponses == TokenTexts(MaxTokens)

\* a request has been typed into the input field
InitParser ==
    /\ variant = "NS"
    /\ chat = TRUE
    /\ messages = InitialMessages
    /\ input = << "d" >>
    /\ isLoading = FALSE
    /\ thinkingState = "idle"
    /\ error = "null"
    /\ attachedFile = 0
    /\ previewUrl = 0
    /\ svgCode = InitialSvgCode
    /\ svgTitle = InitialTitle
    /\ now = 2
    /\ pc = "idle"
    /\ resp = << >>
    /\ pos = 0
    /\ loc = InitLoc
    /\ outstanding = 0
    /\ isChatOpen = FALSE
    /\ mounted = TRUE
    /\ urlCount = 0
    /\ objectUrls = { }
    /\ hist = InitHist

\* the form is submitted through its enabled submit button
SubmitViaControls ==
    /\ ~ SubmitDisabled
    /\ hist.submitEvents < MaxSubmitEvents
    /\ HandleSubmit

NextParser ==
    \/ SubmitViaControls
    \/ OpenStream(ParserResponses)
    \/ OpenFail
    \/ ChunkNS
    \/ StreamFail
    \/ StreamEndNS

SpecParser == InitParser /\ [][NextParser]_vars

-----------------------------------------------------------------------------
(* Tool-call variant: the stream *)

\* the stream yields its next chunk
ChunkTC(Chunks, limit) ==
    /\ variant = "TC"
    /\ pc = "streaming"
    /\ hist.chunks < limit
    /\ \E c \in Chunks :
         \E rs \in [ 1 .. Len(c.functionCalls) -> Fractions ] :
            LET W == ProcessChunkTC([ World EXCEPT !.hist.chunks = @ + 1,
                                                   !.hist.parts = @ \o c.parts ],
                                    c, now, rs)
            IN  /\ Commit(W)
                /\ pc' = IF W.loc.awaiting THEN "tool" ELSE "streaming"
                /\ outstanding' = IF W.loc.awaiting THEN outstanding + 1 ELSE outstanding
    /\ UNCHANGED << fixed, urls, input, isLoading, error, attachedFile,
                    previewUrl, now, resp, pos >>

\* the request made by chat.sendMessage is answered
ToolResolved ==
    /\ pc = "tool"
    /\ \E rs \in [ 1 .. Len(loc.chunk.functionCalls) -> Fractions ] :
          LET W == ResumeAfterSend(World, now, rs)
          IN  /\ Commit(W)
              /\ pc' = IF W.loc.awaiting THEN "tool" ELSE "streaming"
              /\ outstanding' = IF W.loc.awaiting THEN outstanding ELSE outstanding - 1
    /\ UNCHANGED << fixed, urls, input, isLoading, error, attachedFile,
                    previewUrl, now, resp, pos >>

\* the request made by chat.sendMessage fails
ToolRejected ==
    /\ pc = "tool"
    /\ \E rs \in [ 1 .. Len(loc.chunk.functionCalls) -> Fractions ] :
          LET W == ResumeAfterSendFailed(World, now, rs)
          IN  /\ Commit(W)
              /\ pc' = IF W.loc.awaiting THEN "tool" ELSE "streaming"
              /\ outstanding' = IF W.loc.awaiting THEN outstanding ELSE outstanding - 1
    /\ UNCHANGED << fixed, urls, input, isLoading, error, attachedFile,
                    previewUrl, now, resp, pos >>

\* the stream is exhausted: the last message is marked complete and the
\* finally block runs
StreamEndTC ==
    /\ variant = "TC"
    /\ pc = "streaming"
    /\ messages' = MarkStreamingComplete(messages, loc.currentAiMessageId)
    /\ isLoading' = FALSE
    /\ thinkingState' = "idle"
    /\ pc' = "idle"
    /\ outstanding' = outstanding - 1
    /\ hist' = [ hist EXCEPT !.stream = "ended" ]
    /\ UNCHANGED << fixed, urls, input, error, attachedFile, previewUrl,
                    svgCode, svgTitle, now, resp, pos, loc >>

-----------------------------------------------------------------------------
(* The user and the clock *)

\* what the user types into the input field
Inputs == { << >>, << " " >>, << "d" >> }

\* the image files the user attaches
Files == 1 .. MaxObjectUrls

\* milliseconds between two readings of the clock that differ
TickMs == 10

\* onChange of the text input, which is disabled while loading or after an error
TypeInput ==
    /\ ~ InputDisabled
    /\ \E v \in Inputs : v # input /\ input' = v
    /\ UNCHANGED << fixed, urls, messages, isLoading, thinkingState, error,
                    attachedFile, previewUrl, svgCode, svgTitle, now, pc, resp,
                    pos, loc, outstanding, hist >>

\* handleFileChange / handlePaste with an image, and the preview effect that
\* follows setAttachedFile(file): the cleanup of the effect run before, then
\* createObjectURL and setPreviewUrl.  A file and its object URL have the
\* same number, the files numbered in the order they are attached.
AttachFile ==
    /\ \E f \in Files :
          /\ f = urlCount + 1
          /\ attachedFile' = f
          /\ previewUrl' = f
          /\ urlCount' = f
          /\ objectUrls' = CleanupPreview(objectUrls, previewUrl) \cup { f }
    /\ UNCHANGED << fixed, messages, input, isLoading, thinkingState,
                    error, svgCode, svgTitle, now, pc, resp, pos, loc,
                    outstanding, hist >>

\* the remove button of the preview: setAttachedFile(null) and its effect
RemoveAttachment ==
    /\ previewUrl # 0
    /\ attachedFile' = 0
    /\ previewUrl' = 0
    /\ urlCount' = urlCount
    /\ objectUrls' = CleanupPreview(objectUrls, previewUrl)
    /\ UNCHANGED << fixed, messages, input, isLoading, thinkingState,
                    error, svgCode, svgTitle, now, pc, resp, pos, loc,
                    outstanding, hist >>

\* time passes
Tick ==
    /\ now + TickMs <= MaxNow
    /\ now' = now + TickMs
    /\ UNCHANGED << fixed, urls, messages, input, isLoading, thinkingState,
                    error, attachedFile, previewUrl, svgCode, svgTitle, pc,
                    resp, pos, loc, outstanding, hist >>

\* a submit event reaches the form whatever the state of its controls
SubmitEvent ==
    /\ hist.submitEvents < MaxSubmitEvents
    /\ HandleSubmit

-----------------------------------------------------------------------------
(* The application: either variant of the component, used through its       *)
(* controls.                                                                 *)

\* the NAME/STATUS variant mounted without an API key: useMemo catches,
\* returns null and sets the error
MountedWithoutKey ==
    /\ variant = "NS"
    /\ chat = FALSE
    /\ messages = InitialMessages
    /\ input = << >>
    /\ isLoading = FALSE
    /\ thinkingState = "idle"
    /\ error = "API key is missing."
    /\ attachedFile = 0
    /\ previewUrl = 0
    /\ svgCode = InitialSvgCode
    /\ svgTitle = InitialTitle
    /\ now = 2
    /\ pc = "idle"
    /\ resp = << >>
    /\ pos = 0
    /\ loc = InitLoc
    /\ outstanding = 0
    /\ isChatOpen = FALSE
    /\ mounted = TRUE
    /\ urlCount = 0
    /\ objectUrls = { }
    /\ hist = InitHist

Init == Mounted("NS") \/ Mounted("TC") \/ MountedWithoutKey

\* the responses of the remote service to the NAME/STATUS variant
UIResponses ==
    { << "a" >>,
      NAME_PREFIX \o << "a", "\n", "b" >> }

\* a drawing long enough to be written to the shared SVG text
SvgSample ==
    SVG_OPEN \o << ">" >> \o [ i \in 1 .. MinSvgLength - 4 |-> "x" ] \o SVG_CLOSE

TextPart(text) == [ kind |-> "text", text |-> text, thought |-> << >> ]

ThoughtPart(text) == [ kind |-> "thoughtFlag", text |-> text, thought |-> << >> ]

UpdateCanvasCall(title) == [ name |-> "update_canvas", hasArgs |-> TRUE, title |-> title ]

\* the chunks of the remote service's answers to the tool-call variant
UIChunks ==
    { [ functionCalls |-> << >>, parts |-> << ThoughtPart(<< "p" >>) >> ],
      [ functionCalls |-> << >>, parts |-> << TextPart(SvgSample) >> ],
      [ functionCalls |-> << UpdateCanvasCall(<< "n" >>) >>, parts |-> << >> ],
      [ functionCalls |-> << UpdateCanvasCall(<< "n" >>) >>,
        parts |-> << TextPart(<< "o", "k" >>) >> ] }

\* the steps of the handler in flight
HandlerNext ==
    \/ FileRead
    \/ FileReadError
    \/ OpenStream(UIResponses)
    \/ OpenFail
    \/ ChunkNS
    \/ StreamEndNS
    \/ ChunkTC(UIChunks, MaxChunks)
    \/ ToolResolved
    \/ ToolRejected
    \/ StreamEndTC
    \/ StreamFail

\* what the user and the clock do besides submitting
UserNext ==
    \/ TypeInput
    \/ AttachFile
    \/ RemoveAttachment
    \/ Tick

Next ==
    \/ SubmitViaControls
    \/ UserNext
    \/ HandlerNext

Spec == Init /\ [][Next]_vars

\* the same application with submit events that do not come from its controls
NextHandler ==
    \/ SubmitEvent
    \/ UserNext
    \/ HandlerNext

SpecHandler == Init /\ [][NextHandler]_vars

-----------------------------------------------------------------------------
(* The application with a handler that is resumed whenever the promise it   *)
(* awaits settles.                                                           *)

\* the handler is suspended at an await whose promise settles
AtAwait == pc \in { "reading", "opening", "streaming", "tool" }

SpecFair == Spec /\ WF_vars(HandlerNext)

\* the same fairness with ENABLED <<HandlerNext>>_vars written as the state
\* predicate it equals
SpecProgress == Spec /\ ([]<>(~ AtAwait) \/ []<><<HandlerNext>>_vars)

-----------------------------------------------------------------------------
(* The App around the component: the chat panel shown and hidden, the SVG    *)
(* text edited in the editor, the preview and the download, and the end of   *)
(* the page.  The requests are sent with an attached image.                  *)

\* what the user types into the editor's textarea
EditorTexts == { << "e" >>, << "e", " " >> }

\* Header onToggleChat: setIsChatOpen(prev => !prev)
ToggleChat ==
    /\ isChatOpen' = ~ isChatOpen
    /\ UNCHANGED << variant, chat, mounted, urls, messages, input, isLoading,
                    thinkingState, error, attachedFile, previewUrl, svgCode,
                    svgTitle, now, pc, resp, pos, loc, outstanding, hist >>

\* a close that ends the handler in flight
CloseChat_Aborting ==
    /\ isChatOpen
    /\ isChatOpen' = FALSE
    /\ pc' = "idle"
    /\ isLoading' = FALSE
    /\ UNCHANGED << variant, chat, mounted, urls, messages, input,
                    thinkingState, error, attachedFile, previewUrl, svgCode,
                    svgTitle, now, resp, pos, loc, outstanding, hist >>

\* Chat onClose (backdrop and close button): setIsChatOpen(false)
CloseChat ==
    /\ isChatOpen
    /\ isChatOpen' = FALSE
    /\ UNCHANGED << variant, chat, mounted, urls, messages, input, isLoading,
                    thinkingState, error, attachedFile, previewUrl, svgCode,
                    svgTitle, now, pc, resp, pos, loc, outstanding, hist >>

\* a handler that trims what was typed
HandleChange_Trimmed(value) == Trim(value)

\* SvgEditor.handleChange: onChange(event.target.value)
HandleChange(value) == value

\* the user changes the text of the editor's textarea
EditSvg ==
    /\ \E v \in EditorTexts :
          /\ v # svgCode
          /\ Commit(UpdateSvgCode([ BeginStep(World) EXCEPT !.hist.typed = << v >> ],
                                  HandleChange(v)))
    /\ UNCHANGED << fixed, urls, input, isLoading, error, attachedFile,
                    previewUrl, now, pc, resp, pos, outstanding >>

\* <SvgPreview svgCode={svgCode} key={previewKey} title={svgTitle} />
SvgPreviewProps == [ svgCode |-> svgCode, title |-> svgTitle ]

\* dangerouslySetInnerHTML={{ __html: svgCode }}
InnerHtml(props) == props.svgCode

\* handleDownloadSVG: the parts of new Blob([svgCode], ...)
DownloadBlobParts(props) == << props.svgCode >>

\* the component unmounts with the page: the cleanup of the preview effect
\* runs, and nothing of the component is followed any further
Unmount ==
    /\ mounted
    /\ mounted' = FALSE
    /\ urlCount' = urlCount
    /\ objectUrls' = CleanupPreview(objectUrls, previewUrl)
    /\ UNCHANGED << variant, chat, isChatOpen, messages, input, isLoading,
                    thinkingState, error, attachedFile, previewUrl, svgCode,
                    svgTitle, now, pc, resp, pos, loc, outstanding, hist >>

\* the form is submitted through its submit button in the open panel
SubmitInPanel ==
    /\ isChatOpen
    /\ SubmitViaControls

\* what the user does in the App besides submitting
AppUserNext ==
    \/ AttachFile
    \/ RemoveAttachment
    \/ ToggleChat
    \/ CloseChat
    \/ EditSvg

\* a step of the mounted component
MountedNext ==
    /\ mounted
    /\ \/ SubmitInPanel
       \/ AppUserNext
       \/ HandlerNext

NextApp ==
    \/ MountedNext
    \/ Unmount

SpecApp == Init /\ [][NextApp]_vars

-----------------------------------------------------------------------------
(* The extraction specification: one submission of the tool-call variant     *)
(* whose stream delivers one text part, any text of at most                  *)
(* MaxExtractTokens tokens.                                                  *)

ExtractTokens ==
    { SVG_OPEN, << "<", "S", "V", "G" >>, SVG_CLOSE, << "<", "/", "S", "V", "G", ">" >>,
      << "x" >>, FENCE_XML }

RECURSIVE ExtractTexts(_)
ExtractTexts(n) ==
    IF n = 0 THEN { << >> }
    ELSE LET S == ExtractTexts(n - 1)
         IN  S \cup { s \o t : s \in S, t \in ExtractTokens }

ExtractChunks ==
    { [ functionCalls |-> << >>, parts |-> << TextPart(t) >> ] :
        t \in ExtractTexts(MaxExtractTokens) }

InitExtract ==
    /\ variant = "TC"
    /\ chat = TRUE
    /\ messages = InitialMessages
    /\ input = << "d" >>
    /\ isLoading = FALSE
    /\ thinkingState = "idle"
    /\ error = "null"
    /\ attachedFile = 0
    /\ previewUrl = 0
    /\ svgCode = InitialSvgCode
    /\ svgTitle = InitialTitle
    /\ now = 2
    /\ pc = "idle"
    /\ resp = << >>
    /\ pos = 0
    /\ loc = InitLoc
    /\ outstanding = 0
    /\ isChatOpen = FALSE
    /\ mounted = TRUE
    /\ urlCount = 0
    /\ objectUrls = { }
    /\ hist = InitHist

NextExtract ==
    \/ SubmitViaControls
    \/ OpenStream({ << >> })
    \/ ChunkTC(ExtractChunks, 1)
    \/ StreamEndTC

SpecExtract == InitExtract /\ [][NextExtract]_vars

-----------------------------------------------------------------------------
(* The live extraction specification: one submission of the tool-call        *)
(* variant whose stream delivers at most MaxLiveChunks chunks, each with one *)
(* text part: a piece of a drawing, whole tags or tags cut in two.           *)

\* content that makes "<svg" and it longer than the 20 characters a write needs
Filler == [ i \in 1 .. MinSvgLength - 3 |-> "x" ]

LiveTokens ==
    { SVG_OPEN, Filler, SVG_CLOSE, << "<", "/", "s" >>, << "v", "g", ">" >> }

LiveChunks ==
    { [ functionCalls |-> << >>, parts |-> << TextPart(t) >> ] : t \in LiveTokens }

NextLive ==
    \/ SubmitViaControls
    \/ OpenStream({ << >> })
    \/ ChunkTC(LiveChunks, MaxLiveChunks)
    \/ StreamEndTC

SpecLive == InitExtract /\ [][NextLive]_vars

-----------------------------------------------------------------------------
(* The content specification: one submission of the tool-call variant whose  *)
(* stream delivers at most MaxContentChunks chunks of one or two parts, text *)
(* and thoughts, the thoughts holding drawings of their own, or of one empty *)
(* part, and ends or fails.                                                  *)

\* a drawing too short to be written to the shared SVG text
ShortSvg == SVG_OPEN \o << "/", ">" >>

\* a drawing carried by a thought
ThoughtSvg ==
    SVG_OPEN \o << ">" >> \o [ i \in 1 .. MinSvgLength - 4 |-> "y" ] \o SVG_CLOSE

\* a part whose thought property is a string
ThoughtStringPart(thought, text) ==
    [ kind |-> "thoughtString", text |-> text, thought |-> thought ]

ContentParts ==
    { TextPart(SvgSample), TextPart(ShortSvg), TextPart(<< "o", "k" >>),
      ThoughtPart(ThoughtSvg), ThoughtStringPart(<< "y" >>, ThoughtSvg) }

\* parts that carry nothing: an empty text, an empty string as thought
EmptyParts == { TextPart(<< >>), ThoughtStringPart(<< >>, << "y" >>) }

ContentChunks ==
    { [ functionCalls |-> << >>, parts |-> ps ] :
        ps \in { << p >> : p \in ContentParts \cup EmptyParts }
                 \cup { << p, q >> : p \in ContentParts, q \in ContentParts } }

NextContent ==
    \/ SubmitViaControls
    \/ OpenStream({ << >> })
    \/ ChunkTC(ContentChunks, MaxContentChunks)
    \/ StreamEndTC
    \/ StreamFail

SpecContent == InitExtract /\ [][NextContent]_vars

-----------------------------------------------------------------------------
(* The file name specification: the preview shown with any title of at most  *)
(* MaxTitleLength characters, and its two download buttons.  hist.download   *)
(* observes the download attribute given to the anchor.                      *)

\* String.prototype.toLowerCase on one character of a title
TitleToLowerChar(c) == IF c = "A" THEN "a" ELSE c

TitleToLower(s) == [ i \in 1 .. Len(s) |-> TitleToLowerChar(s[i]) ]

\* the characters of the class [a-z0-9] that titles are made of
AlphaNumerics == { "a", "b", "7" }

\* the characters \s matches that titles are made of
TitleWhiteSpace == { " ", "\t" }

\* .replace(/[^a-z0-9\s-]/g, '')
RemoveOthers(s) ==
    SelectSeq(s, LAMBDA c : c \in AlphaNumerics \cup TitleWhiteSpace \cup { "-" })

\* s without the white space it starts with
RECURSIVE DropWhiteSpace(_)
DropWhiteSpace(s) ==
    IF s # << >> /\ Head(s) \in TitleWhiteSpace THEN DropWhiteSpace(Tail(s)) ELSE s

\* .replace(/\s+/g, '-'): each match, a longest run of white space, replaced
RECURSIVE ReplaceWhiteSpaceRuns(_)
ReplaceWhiteSpaceRuns(s) ==
    IF s = << >> THEN << >>
    ELSE IF Head(s) \in TitleWhiteSpace
    THEN << "-" >> \o ReplaceWhiteSpaceRuns(DropWhiteSpace(s))
    ELSE << Head(s) >> \o ReplaceWhiteSpaceRuns(Tail(s))

\* a sanitizing that replaces the white space before it removes characters
SanitizeTitle_ReplaceFirst(title) ==
    RemoveOthers(ReplaceWhiteSpaceRuns(TitleToLower(title)))

\* const sanitizedTitle = title.toLowerCase().replace(...).replace(...)
SanitizeTitle(title) ==
    ReplaceWhiteSpaceRuns(RemoveOthers(TitleToLower(title)))

DOWNLOAD == << "d", "o", "w", "n", "l", "o", "a", "d" >>

\* generateFilename(extension), title being the prop of the preview
GenerateFilename(title, extension) ==
    LET sanitizedTitle == SanitizeTitle(title)
    IN  (IF sanitizedTitle # << >> THEN sanitizedTitle ELSE DOWNLOAD)
            \o << "." >> \o extension

SVG_EXTENSION == << "s", "v", "g" >>

PNG_EXTENSION == << "p", "n", "g" >>

\* handleDownloadSVG: the blob URL is created and revoked within the handler
HandleDownloadSVG ==
    /\ hist' = [ hist EXCEPT
                   !.download = GenerateFilename(SvgPreviewProps.title, SVG_EXTENSION) ]
    /\ UNCHANGED << fixed, urls, messages, input, isLoading, thinkingState, error,
                    attachedFile, previewUrl, svgCode, svgTitle, now, pc, resp,
                    pos, loc, outstanding >>

\* handleDownloadPNG and the onload of its image, when the preview holds an
\* svg element
HandleDownloadPNG ==
    /\ IndexOfIgnoreCase(InnerHtml(SvgPreviewProps), SVG_OPEN) # -1
    /\ hist' = [ hist EXCEPT
                   !.download = GenerateFilename(SvgPreviewProps.title, PNG_EXTENSION) ]
    /\ UNCHANGED << fixed, urls, messages, input, isLoading, thinkingState, error,
                    attachedFile, previewUrl, svgCode, svgTitle, now, pc, resp,
                    pos, loc, outstanding >>

\* the characters titles are made of
TitleChars == { "A", "b", "7", " ", "\t", "-", "!" }

RECURSIVE TitlesOfLength(_)
TitlesOfLength(n) ==
    IF n = 0 THEN { << >> }
    ELSE { Append(t, c) : t \in TitlesOfLength(n - 1), c \in TitleChars }

Titles == UNION { TitlesOfLength(n) : n \in 0 .. MaxTitleLength }

\* the App with a title the chat has set
InitFilename ==
    /\ variant = "TC"
    /\ chat = TRUE
    /\ messages = InitialMessages
    /\ input = << >>
    /\ isLoading = FALSE
    /\ thinkingState = "idle"
    /\ error = "null"
    /\ attachedFile = 0
    /\ previewUrl = 0
    /\ svgCode = InitialSvgCode
    /\ svgTitle \in Titles
    /\ now = 2
    /\ pc = "idle"
    /\ resp = << >>
    /\ pos = 0
    /\ loc = InitLoc
    /\ outstanding = 0
    /\ isChatOpen = FALSE
    /\ mounted = TRUE
    /\ urlCount = 0
    /\ objectUrls = { }
    /\ hist = InitHist

NextFilename ==
    \/ HandleDownloadSVG
    \/ HandleDownloadPNG

SpecFilename == InitFilename /\ [][NextFilename]_vars

-----------------------------------------------------------------------------
(* What the claims speak of *)

IsPrefix(a, b) == Len(a) <= Len(b) /\ SubSeq(b, 1, Len(a)) = a

\* the response text delivered so far
Accumulated == SubSeq(resp, 1, pos)

\* 0-based indices where a line "NAME: t\n" starts in s
NameLineStarts(s) ==
    { i \in 0 .. Len(s) :
        /\ OccursAt(s, NAME_PREFIX, i)
        /\ \E j \in i + Len(NAME_PREFIX) + 1 .. Len(s) : s[j] = "\n" }

HasNameLine(s) == NameLineStarts(s) # {}

\* 0-based index where the first line "NAME: t\n" of s starts
FirstNameLine(s) ==
    CHOOSE i \in NameLineStarts(s) : \A j \in NameLineStarts(s) : i <= j

\* 1-based index of the "\n" that ends the first line "NAME: t\n" of s
FirstNameLineEnd(s) ==
    LET from == FirstNameLine(s) + Len(NAME_PREFIX) + 1
        nls == { j \in from .. Len(s) : s[j] = "\n" }
    IN  CHOOSE j \in nls : \A k \in nls : j <= k

\* the text t of the first line "NAME: t\n" of s
FirstNameText(s) ==
    SubSeq(s, FirstNameLine(s) + Len(NAME_PREFIX) + 1, FirstNameLineEnd(s) - 1)

\* what follows the first line "NAME: t\n" of s
AfterNameLine(s) == SubSeq(s, FirstNameLineEnd(s) + 1, Len(s))

\* s has the form R + "NAME: t\n" + S + "STATUS: DONE" + F
HasProtocolForm(s) ==
    /\ HasNameLine(s)
    /\ IndexOf(AfterNameLine(s), STATUS_DONE) # -1

\* the S and the F of a text of that form
SvgBodyOf(s) ==
    SubstringTo(AfterNameLine(s), IndexOf(AfterNameLine(s), STATUS_DONE))

FollowingTextOf(s) ==
    SubstringFrom(AfterNameLine(s),
                  IndexOf(AfterNameLine(s), STATUS_DONE) + Len(STATUS_DONE))

\* the arguments of the onSvgCodeChange calls of the most recent run of the
\* handler, preceded by the argument of the call before them
WriteChain == hist.lastWrite \o hist.stepWrites

\* the argument of the submission's last onSvgCodeChange call, as << v >>
LastWritten ==
    IF hist.stepWrites = << >> THEN hist.lastWrite
    ELSE << hist.stepWrites[Len(hist.stepWrites)] >>

\* the text of the follow-up message of the submission
FollowUpText ==
    LET i == CHOOSE k \in 1 .. Len(messages) : messages[k].id = loc.followUpMessageId
    IN  messages[i].text

ParserOrder == << "reasoning", "streaming_svg", "streaming_follow_up" >>

\* C1 (as claimed): when the stream of a response R + "NAME: t\n" + S +
\* "STATUS: DONE" + F has ended, the last value written to the shared SVG text
\* is S, however the response was cut into chunks.
C1_LastWriteIsSvgBody ==
    (variant = "NS" /\ hist.stream = "ended" /\ HasProtocolForm(resp))
        => LastWritten = << SvgBodyOf(resp) >>

\* C2 (as claimed): when the stream has ended, the follow-up message created at
\* the detection of "STATUS: DONE" holds the text that follows the marker (as
\* is, or with its leading white space removed), and so none of the SVG body,
\* the NAME line or the marker.
C2_FollowUpIsFollowingText ==
    (variant = "NS" /\ hist.stream = "ended" /\ loc.followUpMessageId # NullId)
        => FollowUpText \in { FollowingTextOf(resp), TrimStart(FollowingTextOf(resp)) }

C4_ParserStateMovesForward ==
    (variant = "NS" /\ hist.stream \in { "open", "ended", "failed" })
        => \E n \in 1 .. Len(ParserOrder) :
              /\ hist.stateTrace = SubSeq(ParserOrder, 1, n)
              /\ loc.state = ParserOrder[n]

\* both transitions made while processing one chunk
C4_Witness ==
    /\ variant = "NS"
    /\ hist.stepName
    /\ loc.state = "streaming_follow_up"
    /\ hist.stateTrace = ParserOrder

\* C5: the first value a submission writes to the shared SVG text is the
\* empty string, written when the NAME line is detected; every written value
\* has the value written before it as a prefix; and a run of the loop body
\* writes once for the detected NAME line and once for its pass through the
\* streaming_svg block, and not otherwise.
C5_WritesPrefixMonotone ==
    variant = "NS" =>
        /\ (hist.lastWrite = << >> /\ hist.stepWrites # << >>)
              => (hist.stepName /\ hist.stepWrites[1] = << >>)
        /\ \A i \in 1 .. Len(WriteChain) - 1 : IsPrefix(WriteChain[i], WriteChain[i + 1])
        /\ Len(hist.stepWrites) = (IF hist.stepName THEN 1 ELSE 0)
                                    + (IF hist.stepSvgBlock THEN 1 ELSE 0)

\* a later chunk of the SVG body extends what an earlier chunk wrote
C5_Witness ==
    /\ variant = "NS"
    /\ loc.state = "streaming_svg"
    /\ hist.lastWrite # << >>
    /\ hist.lastWrite[1] # << >>
    /\ Len(hist.stepWrites) = 1
    /\ Len(hist.stepWrites[1]) > Len(hist.lastWrite[1])

\* 0-based indices at or after from where pat occurs in s, letter case ignored
OccurrencesIgnoreCase(s, pat, from) ==
    LET ls == Lower(s)
        lpat == Lower(pat)
    IN  { i \in from .. Len(s) : OccursAt(ls, lpat, i) }

Least(S) == CHOOSE i \in S : \A j \in S : i <= j

\* the substring of text from the first "<svg" to just after the first
\* "</svg>" that follows, or to the end of text
FirstSvgElement(text) ==
    LET start == Least(OccurrencesIgnoreCase(text, SVG_OPEN, 0))
        closes == OccurrencesIgnoreCase(text, SVG_CLOSE, start)
        end == IF closes = {} THEN Len(text) ELSE Least(closes) + Len(SVG_CLOSE)
    IN  SubSeq(text, start + 1, end)

C7_AtMostOneOutstandingRequest == outstanding <= 1

\* C8: a submit event that arrives while isLoading is true starts no stream
\* and changes nothing: messages, input, attachment, the handler in flight and
\* everything else stay as they are.
C8_SubmitWhileLoadingChangesNothing ==
    [][ (isLoading /\ hist'.submitEvents # hist.submitEvents) =>
           UNCHANGED << fixed, urls, messages, input, isLoading, thinkingState,
                        error, attachedFile, previewUrl, svgCode, svgTitle, now,
                        pc, resp, pos, loc, outstanding >> ]_vars

\* a submit event has returned at the guard while a stream was being consumed
\* and an attachment was waiting to be sent
C8_Witness ==
    /\ isLoading
    /\ hist.returnedWhileLoading
    /\ hist.stream = "open"
    /\ attachedFile # 0

\* the step in which the catch block runs
FailureStep ==
    /\ hist.stream \notin { "refused", "failed" }
    /\ hist'.stream \in { "refused", "failed" }

\* C9: the step in which opening the stream or reading a chunk fails appends
\* exactly one message, the error message, at the end of the transcript and
\* sets the error, which disables the text input and the submit control;
\* after it no chunk is processed, no message is appended and no request is
\* made.
C9_FailureAppendsOneErrorAndStops ==
    [][ /\ FailureStep =>
             /\ Len(messages') = Len(messages) + 1
             /\ SubSeq(messages', 1, Len(messages)) = messages
             /\ messages'[Len(messages')].sender = "ai"
             /\ messages'[Len(messages')].text = ErrorText
             /\ error' # "null"
             /\ InputDisabled'
             /\ SubmitDisabled'
             /\ pc' = "idle"
             /\ outstanding' = 0
        /\ hist.stream \in { "refused", "failed" } =>
             /\ messages' = messages
             /\ pos' = pos
             /\ loc' = loc
             /\ hist'.chunks = hist.chunks
             /\ svgCode' = svgCode
             /\ outstanding' = 0
             /\ pc' = "idle" ]_vars

\* the stream failed after it had delivered something, and the error message
\* is the last of the transcript
C9_Witness ==
    /\ hist.stream = "failed"
    /\ pos > 0 \/ loc.hasAddedAiMessage
    /\ messages[Len(messages)].text = ErrorText
    /\ error # "null"

\* C10: once the error is set it stays set, and no submission starts.
C10_ErrorStaysAndBlocksSubmission ==
    [][ error # "null" =>
           /\ error' # "null"
           /\ isLoading' = FALSE
           /\ pc' = "idle"
           /\ messages' = messages
           /\ hist'.submitEvents = hist.submitEvents ]_vars

\* after a failure the user has attached a file, which would pass the guard
\* of handleSubmit, and a further submit event is within the bound
C10_Witness ==
    /\ error = "failed"
    /\ attachedFile # 0
    /\ hist.submitEvents < MaxSubmitEvents
    /\ PassesGuard

\* a step of the user that is no submission: the panel shown or hidden, a
\* file attached or removed, the editor's text changed
UserStep ==
    \/ isChatOpen' # isChatOpen
    \/ urlCount' # urlCount
    \/ attachedFile # 0 /\ attachedFile' = 0 /\ pc' = pc
    \/ hist'.typed # << >> /\ svgCode' # svgCode

\* C11: while a submission is in flight isLoading is true and the handler is
\* at one of its awaits; no step of the user touches the handler (its
\* position, its locals, the stream, the requests, the transcript, the title);
\* and the handler ends only by the end or the failure of the stream.
C11_NoUserActionStopsTheStream ==
    [][ /\ pc # "idle" =>
              (isLoading /\ pc \in { "reading", "hung", "opening", "streaming", "tool" })
        /\ (pc # "idle" /\ UserStep) =>
              /\ UNCHANGED << pc, isLoading, loc, resp, pos, outstanding,
                              messages, svgTitle, error >>
              /\ hist'.stream = hist.stream
        /\ (pc # "idle" /\ pc' = "idle") =>
              /\ hist.stream \notin { "ended", "refused", "failed" }
              /\ hist'.stream \in { "ended", "refused", "failed" } ]_vars

\* with the panel closed, the stream writes the shared SVG text over an
\* editor edit made during the submission
C11_Witness ==
    /\ ~ isChatOpen
    /\ isLoading
    /\ hist.typed = << >>
    /\ hist.stepWrites # << >>
    /\ hist.lastWrite # << >>
    /\ hist.lastWrite[1] \in EditorTexts

\* C12: no step removes or reorders a message of the transcript: its length
\* never decreases and every message keeps its position, id, sender and type;
\* what a step adds, it adds at the end.
C12_TranscriptAppendOnly ==
    [][ /\ Len(messages') >= Len(messages)
        /\ \A i \in 1 .. Len(messages) :
              /\ messages'[i].id = messages[i].id
              /\ messages'[i].sender = messages[i].sender
              /\ messages'[i].type = messages[i].type ]_vars

\* a transcript with a tool log entry updated in place to 'error', messages
\* appended after it and the stream at its end
C12_Witness ==
    /\ hist.stream = "ended"
    /\ Len(messages) >= 4
    /\ \E i \in 1 .. Len(messages) - 1 :
          /\ messages[i].type = "tool_log"
          /\ messages[i].status = "error"
          /\ messages[i + 1].isStreaming = FALSE
          /\ messages[i + 1].text # << >>

\* C13: the object URLs created and not revoked are exactly the URL of the
\* current preview, while the component is mounted, and none otherwise: the
\* URL of an attachment that was replaced, removed or cleared by a submission
\* is revoked, and so is the last one at the unmount; at most one is live.
C13_PreviewUrlsRevoked ==
    /\ objectUrls = IF mounted /\ previewUrl # 0 THEN { previewUrl } ELSE { }
    /\ objectUrls \subseteq 1 .. urlCount
    /\ Cardinality(objectUrls) <= 1

\* the component has unmounted with a preview shown, after an earlier
\* attachment was cleared by a submission: both URLs are revoked
C13_Witness ==
    /\ ~ mounted
    /\ previewUrl = 2
    /\ urlCount = 2
    /\ objectUrls = { }
    /\ \E i \in 1 .. Len(messages) : messages[i].image = 1

\* C14 (as claimed): the object URL in the image field of a message of the
\* transcript is created and not revoked.
C14_MessageImagesValid ==
    \A i \in 1 .. Len(messages) :
        messages[i].image # 0 => messages[i].image \in objectUrls

\* the SVG text the stream has accumulated in the locals of the handler
StreamSvg ==
    IF variant = "NS" THEN loc.currentSvgCode ELSE loc.potentialSvg[1]

\* C15: the shared SVG text is the argument of the most recent write, whether
\* the editor or the stream made it; and a write of the stream passes the
\* text the handler has accumulated in its locals, which holds nothing of an
\* editor edit made in between.
C15_LastWriteWins ==
    /\ LastWritten # << >> => svgCode = LastWritten[1]
    /\ hist.typed # << >> => svgCode = hist.typed[1]
    /\ (hist.typed = << >> /\ hist.stepWrites # << >>) =>
          /\ svgCode = StreamSvg
          /\ \A i \in 1 .. Len(svgCode) : svgCode[i] # "e"

\* the stream has written over an edit the editor made during the submission
C15_Witness ==
    /\ variant = "NS"
    /\ loc.state = "streaming_svg"
    /\ hist.typed = << >>
    /\ hist.stepWrites # << >>
    /\ hist.lastWrite = << << "e" >> >>
    /\ svgCode = << "b" >>

\* C18: the shared SVG text is exactly the string the editor's change event
\* carried or the chat passed to onSvgCodeChange, and the preview's markup
\* and the content of the SVG download are exactly the shared SVG text.
C18_SvgTextNotTransformed ==
    /\ hist.typed # << >> => svgCode = hist.typed[1]
    /\ hist.stepWrites # << >> => svgCode = hist.stepWrites[Len(hist.stepWrites)]
    /\ InnerHtml(SvgPreviewProps) = svgCode
    /\ DownloadBlobParts(SvgPreviewProps) = << svgCode >>

\* the editor's text ends with white space and is stored as typed
C18_Witness ==
    /\ hist.typed = << << "e", " " >> >>
    /\ svgCode = << "e", " " >>
    /\ InnerHtml(SvgPreviewProps) = << "e", " " >>

\* C16: in the NAME/STATUS variant without a chat client the error is set, no
\* handler is in flight, no request is outstanding and the transcript is the
\* initial greeting alone; a submit event changes nothing.
C16_NoClientNoSubmission ==
    [][ (variant = "NS" /\ ~ chat) =>
           /\ error # "null"
           /\ messages = InitialMessages
           /\ pc = "idle"
           /\ ~ isLoading
           /\ outstanding = 0
           /\ hist'.submitEvents # hist.submitEvents =>
                 UNCHANGED << messages, input, isLoading, thinkingState, error,
                              attachedFile, previewUrl, svgCode, svgTitle, pc,
                              resp, pos, loc, outstanding, urls >> ]_vars

\* without a chat client, a submit event has been handled while a file was
\* attached
C16_Witness ==
    /\ variant = "NS"
    /\ ~ chat
    /\ hist.submitEvents >= 1
    /\ attachedFile # 0
    /\ PassesGuard_IgnoresChat
    /\ messages = InitialMessages

\* the texts of the parts of a chunk that are not thoughts, in order
RECURSIVE TextOfParts(_, _)
TextOfParts(parts, i) ==
    IF i > Len(parts) THEN << >>
    ELSE (IF parts[i].kind = "text" THEN parts[i].text ELSE << >>)
            \o TextOfParts(parts, i + 1)

\* the step in which the function response of an update_canvas call fails to
\* be sent: the entry of the call goes from 'success' to 'error'
ToolFailureStep ==
    /\ variant = "TC"
    /\ pc = "tool"
    /\ \E i \in 1 .. Len(messages) :
          /\ messages[i].id = loc.toolMsgId
          /\ messages[i].type = "tool_log"
          /\ messages[i].status = "success"
          /\ messages'[i].status = "error"

\* C17: when sending the function response of an update_canvas call fails,
\* the entry of the call is marked 'error', no error message is appended, the
\* error stays null, the text parts of the same chunk are processed and the
\* handler goes on reading the stream.
C17_ToolFailureContained ==
    [][ ToolFailureStep =>
           /\ error = "null" /\ error' = "null"
           /\ isLoading'
           /\ \A i \in 1 .. Len(messages') : messages'[i].text # ErrorText
           /\ hist'.stream = "open"
           /\ loc'.awaiting \/
                 /\ pc' = "streaming"
                 /\ loc'.aiTextAccumulator =
                       loc.aiTextAccumulator \o TextOfParts(loc.chunk.parts, 1) ]_vars

\* after the failure the text of the same chunk was added to the transcript
\* and a later chunk of the stream was handled
C17_Witness ==
    /\ variant = "TC"
    /\ error = "null"
    /\ \E i \in 1 .. Len(messages) - 2 :
          /\ messages[i].type = "tool_log"
          /\ messages[i].status = "error"
          /\ messages[i + 1].text = << "o", "k" >>
          /\ messages[i + 2].type = "tool_log"
          /\ messages[i + 2].status = "success"

\* C19: when the stream of a response without a line "NAME: t\n" has ended,
\* the shared SVG text and the title are as before the submission, nothing
\* was written to either, the transcript has gained the user's message and
\* one assistant text message, which holds the whole response, and there is
\* no creation entry and no follow-up message.
C19_NoNameLineLeavesSvgUntouched ==
    (variant = "NS" /\ hist.stream = "ended" /\ ~ HasNameLine(resp)) =>
        /\ svgCode = InitialSvgCode
        /\ svgTitle = InitialTitle
        /\ LastWritten = << >>
        /\ hist.titleCalls = << >>
        /\ loc.creationMessageId = NullId
        /\ loc.followUpMessageId = NullId
        /\ Len(messages) = Len(InitialMessages) + 2
        /\ messages[Len(messages)].id = loc.textResponseId
        /\ messages[Len(messages)].sender = "ai"
        /\ messages[Len(messages)].type = "text"
        /\ messages[Len(messages)].text = resp

\* the response held "NAME: " and "STATUS: DONE" but no newline after the
\* name, and its whole text is in the assistant message
C19_Witness ==
    /\ variant = "NS"
    /\ hist.stream = "ended"
    /\ ~ HasNameLine(resp)
    /\ IndexOf(resp, NAME_PREFIX) # -1
    /\ IndexOf(resp, STATUS_DONE) # -1
    /\ messages[Len(messages)].text = resp

\* whether w ends with "</svg>"
EndsWithClosingTag(w) ==
    OccursAt(Lower(w), SVG_CLOSE, Len(w) - Len(SVG_CLOSE))

C21_SubmissionEventuallyFinishes ==
    isLoading ~> (~ isLoading /\ thinkingState = "idle")

\* C21, the part that holds: a submission finishes unless the read of its
\* attachment has left the handler suspended for ever
C21_FinishesUnlessReadHangs ==
    isLoading ~> ((~ isLoading /\ thinkingState = "idle") \/ pc = "hung")

\* C21, the part that holds: isLoading is true exactly while a handler is in
\* flight, and the thinking indicator is reset when none is
C21_LoadingWhileInFlight ==
    /\ isLoading <=> pc # "idle"
    /\ pc = "idle" => thinkingState = "idle"

\* C22 (as claimed): the status of a tool log entry is final once it has left
\* 'calling': an entry that is 'success', the status set after the title was
\* changed, never becomes 'error'.
C22_ToolStatusFinal ==
    [][ variant = "TC" =>
          \A i \in 1 .. Len(messages) :
              (messages[i].type = "tool_log" /\ messages[i].status # "calling")
                  => messages'[i].status = messages[i].status ]_vars

\* C23 (as claimed): in the tool-call variant, when no submission is in
\* flight, whether the last one ended or failed midway, no message of the
\* transcript has isStreaming true.
C23_NoStreamingMessageAfterFinish ==
    (variant = "TC" /\ ~ isLoading) =>
        \A i \in 1 .. Len(messages) : ~ messages[i].isStreaming

\* C24: in the NAME/STATUS variant a creation entry is 'creating' or
\* 'created'; it is 'created' only if "STATUS: DONE" has been received after
\* the NAME line and the parser has entered streaming_follow_up; once
\* 'created' it stays so; and a step taken in streaming_follow_up writes
\* neither the shared SVG text nor the title, whatever the chunk holds.
C24_CreatedIsFinalAndEndsWrites ==
    [][ variant = "NS" =>
          /\ \A i \in 1 .. Len(messages') :
                messages'[i].type = "creation" =>
                   /\ messages'[i].status \in { "creating", "created" }
                   /\ messages'[i].status = "created" =>
                         /\ loc'.state = "streaming_follow_up"
                         /\ HasProtocolForm(SubSeq(resp', 1, pos'))
                   /\ (i <= Len(messages) /\ messages[i].status = "created") =>
                         messages'[i].status = "created"
          /\ loc.state = "streaming_follow_up" =>
                /\ svgCode' = svgCode
                /\ svgTitle' = svgTitle
                /\ hist'.titleCalls = hist.titleCalls
                /\ pos' # pos => hist'.stepWrites = << >> ]_vars

\* after the entry became 'created', a later chunk brought a second
\* "STATUS: DONE" and nothing was written
C24_Witness ==
    /\ variant = "NS"
    /\ loc.state = "streaming_follow_up"
    /\ \E i \in 1 .. Len(messages) : messages[i].status = "created"
    /\ hist.stepWrites = << >>
    /\ hist.lastWrite # << >>
    /\ OccursAt(Accumulated, STATUS_DONE, pos - Len(STATUS_DONE))
    /\ IndexOf(Accumulated, STATUS_DONE) < pos - Len(STATUS_DONE)

\* the non-thought text of the parts received in the submission, in order
ReceivedText == TextOfParts(hist.parts, 1)

\* whether w is the first SVG element of the non-thought text of the parts
\* received up to one of them
ExtractedFromReceived(w) ==
    \E k \in 1 .. Len(hist.parts) :
        LET text == TextOfParts(SubSeq(hist.parts, 1, k), 1)
        IN  /\ OccurrencesIgnoreCase(text, SVG_OPEN, 0) # { }
            /\ w = FirstSvgElement(text)

\* C25: in the tool-call variant every value a run of the loop body writes to
\* the shared SVG text is longer than 20 characters and is the SVG element
\* extracted from the non-thought text received up to one of the parts; the shared
\* SVG text is the last value written, or as before the submission when there
\* was none; nothing a thought part carries is in it or in the visible text
\* of the message; and with no "<svg" in the non-thought text nothing is
\* written.
C25_OnlyExtractedTextIsWritten ==
    (variant = "TC" /\ hist.stream \in { "open", "ended", "failed" }) =>
        /\ \A i \in 1 .. Len(hist.stepWrites) :
              /\ Len(hist.stepWrites[i]) > MinSvgLength
              /\ ExtractedFromReceived(hist.stepWrites[i])
        /\ hist.stepWrites # << >> =>
              hist.stepWrites[Len(hist.stepWrites)] = FirstSvgElement(ReceivedText)
        /\ svgCode = IF LastWritten = << >> THEN InitialSvgCode ELSE LastWritten[1]
        /\ \A i \in 1 .. Len(svgCode) : svgCode[i] # "y"
        /\ \A k \in 1 .. Len(messages) :
              /\ \A i \in 1 .. Len(messages[k].text) : messages[k].text[i] # "y"
              /\ messages[k].id = loc.currentAiMessageId => messages[k].text = ReceivedText
        /\ OccurrencesIgnoreCase(ReceivedText, SVG_OPEN, 0) = { } =>
              (LastWritten = << >> /\ svgCode = InitialSvgCode)

\* a thought that holds a drawing arrived and left the shared SVG text as it
\* was, then a text part completed a drawing, which was written
C25_Witness ==
    /\ variant = "TC"
    /\ loc.thoughtAccumulator = ThoughtSvg
    /\ hist.lastWrite = << >>
    /\ hist.stepWrites = << ShortSvg \o SvgSample >>
    /\ svgCode = ShortSvg \o SvgSample

\* the text of the thought parts received in the submission, in order
RECURSIVE ThoughtOfParts(_, _)
ThoughtOfParts(parts, i) ==
    IF i > Len(parts) THEN << >>
    ELSE (CASE parts[i].kind = "thoughtString" -> parts[i].thought
            [] parts[i].kind = "thoughtFlag" -> parts[i].text
            [] OTHER -> << >>)
            \o ThoughtOfParts(parts, i + 1)

ReceivedThought == ThoughtOfParts(hist.parts, 1)

\* the positions of the messages the loop has appended in the submission:
\* those after the user's message, but for the error message of a failure
StreamedMessages ==
    { k \in Len(InitialMessages) + 2 .. Len(messages) :
        ~ (hist.stream = "failed" /\ k = Len(messages)) }

C27_MessageIdsDistinct ==
    \A i \in 1 .. Len(messages) : \A j \in 1 .. Len(messages) :
        i # j => messages[i].id # messages[j].id

\* the characters of the lower-cased title that are a-z, 0-9, white space or
\* '-', in order
KeptOfTitle(title) ==
    SelectSeq(TitleToLower(title),
              LAMBDA c : c \in { "a", "b", "7", " ", "\t", "-" })

\* kept with every run of white space replaced by one '-': the characters
\* that are no white space stay, the first of a run becomes '-', the others go
RunsAsHyphens(kept) ==
    LET isSpace(i) == kept[i] \in { " ", "\t" }
        at == { i \in 1 .. Len(kept) : ~ isSpace(i) \/ i = 1 \/ ~ isSpace(i - 1) }
        nth(n) == CHOOSE i \in at : Cardinality({ j \in at : j <= i }) = n
    IN  [ n \in 1 .. Cardinality(at) |->
            IF isSpace(nth(n)) THEN "-" ELSE kept[nth(n)] ]

\* C28: the download name is base + "." + extension, where base is the
\* lower-cased title with every character other than a-z, 0-9, white space
\* and '-' removed and every run of white space replaced by one '-', or
\* "download" when that is empty; base is not empty and holds only a-z, 0-9
\* and '-'.
C28_FilenameIsSanitizedTitle ==
    hist.download # << >> =>
        LET expected == RunsAsHyphens(KeptOfTitle(svgTitle))
            base == IF expected = << >> THEN DOWNLOAD ELSE expected
        IN  /\ \E ext \in { SVG_EXTENSION, PNG_EXTENSION } :
                  hist.download = base \o << "." >> \o ext
            /\ base # << >>
            /\ \A i \in 1 .. Len(base) :
                  base[i] \in { "a", "b", "7", "-" } \cup { DOWNLOAD[k] : k \in 1 .. Len(DOWNLOAD) }

\* a removed character stood between two white spaces: one run, one '-'
C28_Witness ==
    /\ svgTitle = << " ", "!", "\t" >>
    /\ hist.download = << "-", ".", "p", "n", "g" >>

=============================================================================
